---- MODULE Spec2Model ----
(***************************************************************************)
(* Model of the schema-migration engine of rust-query (src/src/migrate.rs):*)
(* Prepare -> Migrator<S> -> Database<S>, over a store that holds a        *)
(* stamped version (PRAGMA user_version), the SQLite schema cookie         *)
(* (PRAGMA schema_version) and the live tables with their rows; and of the *)
(* query side: the alias allocator and the join cache (src/src/value.rs),  *)
(* the select plan and its compilation (src/src/ast.rs), the builders of   *)
(* the declared schema (src/src/lib.rs).                                   *)
(***************************************************************************)
EXTENDS Integers, Sequences, FiniteSets, TLC

\* ---------------------------------------------------------------- bounds
MaxVersion == 2      \* schema versions V0 .. V(MaxVersion) are declared
MaxSessions == 2     \* processes run one after the other on the store
MaxOps == 2          \* calls a Migration::tables makes on the SchemaBuilder
MaxRows == 2         \* rows per table of a store found at start or filled by raw sql
MaxAlias == 4        \* aliases MyAlias::new hands out in one run
MaxDbs == 3          \* Db values of foreign key columns held at once
MaxDeref == 2        \* dereferences counted per Db value
MaxSources == 2      \* sources of a select plan
MaxThreads == 2      \* threads that call MyAlias::new
MaxCalls == 3        \* calls of MyAlias::new per thread
MaxDecls == 3        \* calls a Schema::typs makes on its builders

Versions == 0 .. MaxVersion

\* ------------------------------------------------- declared Schema Model
NoFk == <<>>

\* hash::Column built by TypBuilder::col
TypCol(name, typ, fk) ==
    [name |-> name, typ |-> typ, nullable |-> FALSE, fk |-> fk]

\* the implicit primary key every table gets in new_table_inner
IdCol == TypCol("id", "integer", NoFk)

\* Table::typs of the declared tables (Author, Book) per schema version
AuthorTyp == [columns |-> {TypCol("name", "text", NoFk)}, uniques |-> {}]

BookTyp(v) ==
    [columns |-> {TypCol("title", "text", NoFk)}
                 \cup (IF v % 3 \in {0, 1}
                       THEN {TypCol("author", "integer", <<"author", "id">>)}
                       ELSE {})
                 \cup (IF v % 3 \in {1, 2}
                       THEN {TypCol("year", "integer", NoFk)}
                       ELSE {}),
     uniques |-> IF v % 3 = 1 THEN {{"title", "year"}} ELSE {}]

\* Schema::typs: TableTypBuilder::table inserts (T::NAME, typs of T)
Typs(v) ==
    (IF v % 3 = 2 THEN {} ELSE {<<"author", AuthorTyp>>})
    \cup {<<"book", BookTyp(v)>>}

TableNames(v) == {t[1] : t \in Typs(v)}
TypOf(v, name) == (CHOOSE t \in Typs(v) : t[1] = name)[2]
ColNames(typ) == {c.name : c \in typ.columns}

\* ------------------------------------------------------------- the store
\* A store: user_version, schema_version, and the live tables.
NoTables == [n \in {} |-> {}]

FreshStore == [uv |-> 0, sv |-> 0, tabs |-> NoTables]

\* The outcome of a statement the engine rejected (every caller unwraps it)
SqlError == [uv |-> -1, sv |-> -1, tabs |-> NoTables]

schema_version(st) == st.sv
user_version(st) == st.uv

set_user_version(st, v) ==
    IF st = SqlError THEN SqlError ELSE [st EXCEPT !.uv = v]

\* (C18 mutant) the unique constraints of the declaration are not created
NewTableInnerNoUniques(st, table, alias) ==
    IF st = SqlError \/ alias \in DOMAIN st.tabs
    THEN SqlError
    ELSE [st EXCEPT
            !.tabs = (alias :> [columns |-> table.columns \cup {IdCol},
                                uniques |-> {},
                                rows    |-> {}]) @@ st.tabs,
            !.sv = @ + 1]

\* CREATE TABLE alias (<declared columns>, id integer primary key) STRICT
new_table_inner(st, table, alias) ==
    IF st = SqlError \/ alias \in DOMAIN st.tabs
    THEN SqlError
    ELSE [st EXCEPT
            !.tabs = (alias :> [columns |-> table.columns \cup {IdCol},
                                uniques |-> table.uniques,
                                rows    |-> {}]) @@ st.tabs,
            !.sv = @ + 1]

\* DROP TABLE name
DropTable(st, name) ==
    IF st = SqlError \/ name \notin DOMAIN st.tabs
    THEN SqlError
    ELSE [st EXCEPT
            !.tabs = [n \in (DOMAIN st.tabs) \ {name} |-> st.tabs[n]],
            !.sv = @ + 1]

\* a foreign key that referenced the renamed table follows the rename
RenameFk(c, from, to) ==
    IF c.fk # NoFk /\ c.fk[1] = from
    THEN [c EXCEPT !.fk = <<to, c.fk[2]>>]
    ELSE c

\* ALTER TABLE from RENAME TO to
RenameTable(st, from, to) ==
    IF st = SqlError \/ from \notin DOMAIN st.tabs \/ to \in DOMAIN st.tabs
    THEN SqlError
    ELSE LET names == ((DOMAIN st.tabs) \ {from}) \cup {to}
             old(n) == IF n = to THEN st.tabs[from] ELSE st.tabs[n]
         IN  [st EXCEPT
                !.tabs = [n \in names |->
                            [old(n) EXCEPT
                               !.columns = {RenameFk(c, from, to) : c \in @}]],
                !.sv = @ + 1]

\* the primary key and the unique constraints of a table hold of its rows
KeysHold(tab, rows) ==
    \A r1 \in rows, r2 \in rows :
        r1 # r2 =>
            /\ r1["id"] # r2["id"]
            /\ \A u \in tab.uniques : \E c \in u : r1[c] # r2[c]

\* INSERT of a set of rows into table name
InsertRows(st, name, rows) ==
    IF st = SqlError \/ name \notin DOMAIN st.tabs
    THEN SqlError
    ELSE IF ~KeysHold(st.tabs[name], st.tabs[name].rows \cup rows)
    THEN SqlError
    ELSE [st EXCEPT !.tabs[name].rows = @ \cup rows]

\* PRAGMA foreign_key_check: the rows whose foreign key finds no parent row
ForeignKeyViolations(st) ==
    UNION { UNION { { <<n, c.name, r>> :
                        r \in { r \in st.tabs[n].rows :
                                  \/ c.fk[1] \notin DOMAIN st.tabs
                                  \/ \A p \in st.tabs[c.fk[1]].rows :
                                        p[c.fk[2]] # r[c.name] } } :
                    c \in { c \in st.tabs[n].columns : c.fk # NoFk } } :
            n \in DOMAIN st.tabs }

\* pragma::read_schema: the live structure as a Schema Model (the implicit
\* primary key is not a declared column)
read_schema(st) ==
    { <<n, [columns |-> { c \in st.tabs[n].columns : c.name # "id" },
            uniques |-> st.tabs[n].uniques]>> : n \in DOMAIN st.tabs }

\* the tables of a declared schema, created one by one
RECURSIVE CreateTables(_, _)
CreateTables(st, typs) ==
    IF typs = {} THEN st
    ELSE LET t == CHOOSE x \in typs : TRUE
         IN  CreateTables(new_table_inner(st, t[2], t[1]), typs \ {t})

\* row i of a table: its foreign keys hold i + shift, its other columns i
SampleRow(tab, i, shift) ==
    [c \in {col.name : col \in tab.columns} |->
        IF \E col \in tab.columns : col.name = c /\ col.fk # NoFk
        THEN i + shift ELSE i]

\* rows 1 .. MaxRows in every table; with shift 1 the last row of a table
\* with a foreign key references a row that does not exist
RECURSIVE PopulateTables(_, _, _)
PopulateTables(st, names, shift) ==
    IF st = SqlError \/ names = {} THEN st
    ELSE LET n == CHOOSE x \in names : TRUE
         IN  PopulateTables(
                 InsertRows(st, n, {SampleRow(st.tabs[n], i, shift) :
                                       i \in 1 .. MaxRows}),
                 names \ {n}, shift)

Populate(st, shift) ==
    IF st = SqlError THEN SqlError
    ELSE PopulateTables(st, DOMAIN st.tabs, shift)

\* The store file is found as it is: fresh, or written earlier (by this or
\* by another build) with version v stamped on the tables of schema w.
StampedStore(v, w, shift) ==
    set_user_version(Populate(CreateTables(FreshStore, Typs(w)), shift), v)

\* a store stamped v that holds no table: what a build leaves whose schema
\* of version v declares no table
EmptyStampedStore(v) == set_user_version(FreshStore, v)

InitialStores ==
    {FreshStore}
    \cup {StampedStore(v, w, k) : v \in Versions, w \in Versions, k \in {0, 1}}
    \cup {EmptyStampedStore(v) : v \in Versions}

\* raw statements handed to create_db_sql
Scripts == {"rows_ok", "rows_dangling", "extra_table", "bad_sql"}

execute_batch(st, sql) ==
    CASE sql = "rows_ok"       -> Populate(st, 0)
      [] sql = "rows_dangling" -> Populate(st, 1)
      [] sql = "extra_table"   -> new_table_inner(st, AuthorTyp, "extra")
      [] OTHER                 -> SqlError

\* ------------------------------------------------------------- the state
VARIABLES
    disk,      \* the persisted store (what a new connection would read)
    txn,       \* the store as seen inside the open transaction
    txOpen,    \* an exclusive transaction is held on the store
    fkOn,      \* PRAGMA foreign_keys of the connection: "closed", "ON", "OFF"
    allowed,   \* static ALLOWED
    stuff,     \* the LocalClients whose stuff is a clone of the Rc<OwnedTransaction>
    pc,        \* what the caller holds / where migrate stands
    mS,        \* S::VERSION of the Migrator<S> (or Database<S>) held
    target,    \* N::VERSION of the migrate step in progress
    builder,   \* the SchemaBuilder of the step in progress
    dbh,       \* the Database returned by finish
    snap,      \* history: the persisted store when Prepare::open was called
    initRan,   \* history: the initialization closure ran in this session
    verified,  \* history: versions whose schema foreign_key_check compared equal
    stamped,   \* history: versions written by set_user_version in this session
    trace,     \* history: statements of the migrate step in progress
    why,       \* history: what panicked
    sessions,  \* number of processes started so far
    closure,   \* history: the closure Prepare::migrator called
    IDEN_NUM,  \* static IDEN_NUM of MyAlias::new
    joins,     \* the Joins of the tables of a query, in the order they were made
    dbs,       \* the Db values of foreign key columns handed out
    plan,      \* the MySelect being built
    select,    \* the SelectStatement into_select made of it
    next,      \* per thread: "let next" inside MyAlias::new, or NoCall
    names,     \* per thread: the aliases MyAlias::new returned to it
    built,     \* per program: the TypBuilder and the TableTypBuilder it fills
    declared,  \* history, per program: what it declared, without any order
    srcs,      \* per plan scope: the aliases of the tables the plan joined
    nodes,     \* the expression nodes (values) built so far
    filters,   \* history, per plan scope: the node the plan took last
    data,      \* the rows of the tables the queries read
    wanted,    \* the columns the prepared row decoder reads
    cursor,    \* the rows the statement has not returned yet
    fetched,   \* history: the rows rows.next() returned, in order
    out,       \* the Vec that into_vec fills
    calls,     \* history: the rows the row decoder was called with, in order
    xpc        \* where into_vec stands

\* the state of the migration engine
mvars == <<disk, txn, txOpen, fkOn, allowed, stuff, pc, mS, target, builder,
           dbh, snap, initRan, verified, stamped, trace, why, sessions,
           closure>>

\* the state of the query side
\* the expression nodes and the plans that take them
evars == <<srcs, nodes, filters>>

\* the execution of a query
xvars == <<data, wanted, cursor, fetched, out, calls, xpc>>

qvars == <<IDEN_NUM, joins, dbs, plan, select, next, names, built,
           declared, evars, xvars>>

\* two programs that declare a schema each
Programs == {1, 2}

\* hash::Table::default() and hash::Schema::default()
NoTable == [columns |-> <<>>, uniques |-> <<>>]
NoSchema == [tables |-> <<>>]

Threads == 1 .. MaxThreads
NoCall == -1

\* MySelect::default()
NoPlan == [sources |-> <<>>, filters |-> <<>>, group |-> <<>>, aggr |-> <<>>,
           sort |-> <<>>, select |-> <<>>]

\* SelectStatement::new()
NoSelect == [from |-> <<>>, exprs |-> <<>>, wheres |-> <<>>, group_by |-> <<>>,
             order_by |-> <<>>]

\* the plan scopes: 1 and 2 are top-level queries, 3 is a query nested in 1
Scopes == {1, 2, 3}

\* tables without rows
NoData == [playlist |-> {}, playlist_track |-> {}]

vars == <<mvars, qvars>>

NoBuilder == [scope |-> 0, drop |-> <<>>, rename |-> <<>>, calls |-> 0]
NoDb == [version |-> -1, schema_version |-> -1]

Init ==
    /\ disk \in InitialStores
    /\ txn = disk
    /\ txOpen = FALSE
    /\ fkOn = "closed"
    /\ allowed = TRUE
    /\ stuff = {}
    /\ pc = "idle"
    /\ mS = 0
    /\ target = 0
    /\ builder = NoBuilder
    /\ dbh = NoDb
    /\ snap = disk
    /\ initRan = FALSE
    /\ verified = {}
    /\ stamped = {}
    /\ trace = <<>>
    /\ why = ""
    /\ sessions = 1
    /\ closure = "unset"
    /\ IDEN_NUM = 0
    /\ joins = <<>>
    /\ dbs = <<>>
    /\ plan = NoPlan
    /\ select = NoSelect
    /\ next = [t \in Threads |-> NoCall]
    /\ names = [t \in Threads |-> <<>>]
    /\ built = [p \in Programs |-> [typ |-> NoTable, schema |-> NoSchema]]
    /\ declared = [p \in Programs |-> [typ |-> {}, schema |-> {}, calls |-> 0]]
    /\ srcs = [s \in Scopes |-> {}]
    /\ nodes = {}
    /\ filters = [s \in Scopes |-> {}]
    /\ data = NoData
    /\ wanted = <<>>
    /\ cursor = <<>>
    /\ fetched = <<>>
    /\ out = <<>>
    /\ calls = <<>>
    /\ xpc = "building"

\* ------------------------------------------------------------- Prepare
\* Prepare::open / open_in_memory -> open_internal
open ==
    /\ pc \in {"idle", "db", "none", "finish_none"}
    /\ IF allowed
       THEN /\ allowed' = FALSE
            /\ pc' = "prepare"
            /\ fkOn' = "ON"
            /\ UNCHANGED why
       ELSE /\ pc' = "panicked"
            /\ why' = "ALLOWED"
            /\ UNCHANGED <<allowed, fkOn>>
    /\ snap' = disk
    /\ UNCHANGED <<disk, txn, txOpen, stuff, mS, target, builder, dbh,
                   initRan, verified, stamped, trace, sessions, closure, qvars>>

\* (C8 mutant) the stamped version taken for the sign of a new store
IsNewlyCreatedByUserVersion(st) == user_version(st) = 0

\* "check if this database is newly created"
IsNewlyCreated(st) == schema_version(st) = 0

\* (C9 mutant) the age of the store is not looked at
IsOlderNever(uv, S) == FALSE

\* (C11 mutant) the comparison is turned around
IsOlderInverted(uv, S) == uv > S

\* "We can not migrate databases older than `S`"
IsOlder(uv, S) == uv < S

\* (C10 mutant) Open never verifies
IsSameNever(uv, S) == FALSE

\* the version matches: the schema is verified before a Migrator is returned
IsSame(uv, S) == uv = S

\* (C4 mutant) the pragma's result is not looked at
ForeignKeyCheckNoPragma(S, st) ==
    IF Typs(S) # read_schema(st) THEN "schema" ELSE "ok"

\* (C5 mutant) the schema is not compared
ForeignKeyCheckNoSchema(S, st) ==
    IF Cardinality(ForeignKeyViolations(st)) # 0 THEN "fk" ELSE "ok"

\* foreign_key_check::<S>: "fk" and "schema" are its two panics
foreign_key_check(S, st) ==
    IF Cardinality(ForeignKeyViolations(st)) # 0 THEN "fk"
    ELSE IF Typs(S) # read_schema(st) THEN "schema"
    ELSE "ok"

\* the closure of create_db_empty
InitEmpty(S, st) == CreateTables(st, Typs(S))

\* the closure of create_db_sql
InitSql(S, st, sql) == execute_batch(CreateTables(st, Typs(S)), sql)

\* (C20 mutant) the transaction takes no lock when it begins
TransactionBehaviorDeferred == "Deferred"

\* transaction_with_behavior(TransactionBehavior::Exclusive)
TransactionBehavior == "Exclusive"

\* (C2 mutant) the transaction commits when dropped
DropBehaviorCommit == "Commit"

\* the DropBehavior of the transaction begun in Prepare::migrator
DropBehavior == "Rollback"

\* the persisted store once a transaction that saw t is dropped
Dropped(t) == IF DropBehavior = "Commit" /\ t # SqlError THEN t ELSE disk

\* ---------------------------------------- the connection of the migration
\* (C32 mutant) the transaction is begun before the pragma is sent
MigratorStepsBeginFirst == <<"transaction_with_behavior", "foreign_keys_OFF">>

\* Prepare::migrator: the pragma, then the exclusive transaction
MigratorSteps == <<"foreign_keys_OFF", "transaction_with_behavior">>

\* Migrator::finish: into_heads drops (commits) the transaction, then the
\* pragma
FinishSteps == <<"into_heads", "foreign_keys_ON">>

\* conn.pragma_update(None, "foreign_keys", value) on a connection c: the
\* engine ignores this pragma while a transaction is open on the connection
pragma_update(c, value) == IF c.tx THEN c ELSE [c EXCEPT !.fk = value]

\* one call on the connection
ConnStep(c, step) ==
    CASE step = "foreign_keys_OFF"          -> pragma_update(c, "OFF")
      [] step = "foreign_keys_ON"           -> pragma_update(c, "ON")
      [] step = "transaction_with_behavior" -> [c EXCEPT !.tx = TRUE]
      [] step = "into_heads"                -> [c EXCEPT !.tx = FALSE]

\* the calls of a function on the connection, in their order
RECURSIVE ConnRun(_, _)
ConnRun(c, steps) ==
    IF steps = <<>> THEN c
    ELSE ConnRun(ConnStep(c, Head(steps)), Tail(steps))

\* f(conn): the closure handed to Prepare::migrator, "" being the closure
\* of create_db_empty and any other f that of create_db_sql(f)
CallInit(f, S, st) ==
    IF f = "" THEN InitEmpty(S, st) ELSE InitSql(S, st, f)

\* Prepare::migrator::<S>(f)
migrator(S, f) ==
    LET fresh   == IsNewlyCreated(disk)
        inited  == IF fresh THEN set_user_version(CallInit(f, S, disk), S)
                   ELSE disk
        outcome == IF inited = SqlError THEN "sql"
                   ELSE IF IsOlder(user_version(inited), S) THEN "none"
                   ELSE IF IsSame(user_version(inited), S)
                   THEN foreign_key_check(S, inited)
                   ELSE "ok"
        c       == ConnRun([fk |-> fkOn, tx |-> txOpen], MigratorSteps)
    IN
    /\ pc = "prepare"
    /\ fkOn' = c.fk
    /\ initRan' = fresh
    /\ mS' = S
    /\ stamped' = IF fresh /\ inited # SqlError THEN {S} ELSE {}
    /\ IF outcome = "ok"
       THEN /\ pc' = "migrator"
            /\ txOpen' = c.tx
            /\ txn' = inited
            /\ verified' = IF IsSame(user_version(inited), S) THEN {S} ELSE {}
            /\ UNCHANGED <<disk, why>>
       ELSE \* None is returned, or an unwrap, an expect or foreign_key_check
            \* panics: either way the OwnedTransaction is dropped
            /\ pc' = IF outcome = "none" THEN "none" ELSE "panicked"
            /\ why' = IF outcome = "none" THEN why ELSE outcome
            /\ txOpen' = FALSE
            /\ disk' = Dropped(inited)
            /\ txn' = disk'
            /\ verified' = {}
    /\ closure' = IF fresh THEN f ELSE "unset"
    /\ UNCHANGED <<allowed, stuff, target, builder, dbh, snap, trace,
                   sessions, qvars>>

create_db_empty ==
    \E S \in Versions : migrator(S, "")

create_db_sql ==
    \E S \in Versions, sql \in Scripts :
        migrator(S, sql)

\* ------------------------------------------------------------- Migrator
\* (C1 mutant) the step is applied whatever the stamped version
TakesEffectAlways(uv, S) == TRUE

\* "Apply a database migration if the current schema is `S`"
TakesEffect(uv, S) == uv = S

\* the version a Migration<From = S> leads to
NextVersions(S) == {S + 1} \cap Versions

\* (C3 mutant) the version is stamped before the checks
MigrateOrderStampFirst ==
    <<"tables", "drops", "renames", "stamp", "verify", "migrator">>

\* the order of Migrator::migrate once it takes effect
MigrateOrder == <<"tables", "drops", "renames", "verify", "stamp", "migrator">>

StepAfter(p) ==
    LET i == CHOOSE k \in 1 .. Len(MigrateOrder) - 1 : MigrateOrder[k] = p
    IN  MigrateOrder[i + 1]

\* the step after which migrate returns hands out the Migrator<N>
Returns(at) ==
    IF StepAfter(at) = "migrator" THEN mS' = target ELSE UNCHANGED mS

\* the LocalClient values of the thread that holds the Migrator: a thread
\* has one
LocalClients == {1}

\* t.stuff = self.transaction.clone(): what t.stuff held before is dropped
clone(held, t) == held \cup {t}

\* (C33 mutant) finish leaves the LocalClient as it is
ResetNone(held, t) == held

\* t.stuff = Rc::new(()): the clone that t.stuff held is dropped
reset(held, t) == held \ {t}

\* Rc::strong_count of the transaction while a Migrator holds it
strong_count(held) == 1 + Cardinality(held)

\* Migrator::<S>::migrate::<N>, up to the call of the closure
migrate ==
    \E N \in NextVersions(mS), t \in LocalClients :
    /\ pc = "migrator"
    /\ stuff' = clone(stuff, t)
    /\ IF TakesEffect(user_version(txn), mS)
       THEN /\ pc' = MigrateOrder[1]
            /\ target' = N
            /\ builder' = NoBuilder
            /\ trace' = <<>>
            /\ UNCHANGED mS
       ELSE \* the step is skipped: a Migrator<N> over the same transaction
            /\ mS' = N
            /\ UNCHANGED <<pc, target, builder, trace>>
    /\ UNCHANGED <<disk, txn, txOpen, fkOn, allowed, dbh, snap, initRan,
                   verified, stamped, why, sessions, closure, qvars>>

\* a panic inside migrate: the Migrator is gone, the LocalClient still holds
\* the transaction, which nothing can commit any more
Panics(reason) ==
    /\ pc' = "panicked"
    /\ why' = reason
    /\ UNCHANGED <<disk, txn, txOpen, fkOn, allowed, stuff, mS, target,
                   builder, dbh, snap, initRan, verified, stamped, sessions, closure, qvars>>

\* Scope::tmp_table
TmpNames == <<"_tmp_0", "_tmp_1", "_tmp_2", "_tmp_3">>
tmp_table(scope) == TmpNames[scope + 1]

\* (C13 mutant) the rows are written under ids the engine assigns anew
AlteredRowsNewIds(st, from, toTyp, dflt) ==
    { [c \in ColNames(toTyp) \cup {"id"} |->
          IF c = "id" THEN r[c] + 1
          ELSE IF c \in DOMAIN r THEN r[c] ELSE dflt] :
       r \in st.tabs[from].rows }

\* the rows a migrate_table writes: one per row of From, "keep the ID the
\* same", the columns From and To share copied, the new ones set to dflt
AlteredRows(st, from, toTyp, dflt) ==
    { [c \in ColNames(toTyp) \cup {"id"} |->
          IF c \in DOMAIN r THEN r[c] ELSE dflt] : r \in st.tabs[from].rows }

\* (C30 mutant) Create::empty leaves the query of the closure unfiltered
EmptyFilterNone == TRUE

\* "rows.filter(false)" in Create::empty
EmptyFilter == FALSE

\* the rows the query of a create_from closure returns: those of the table
\* it joins that pass its filter
QueryRows(st, src, filter) ==
    IF filter THEN st.tabs[src].rows ELSE {}

\* the rows a create_from writes: one per row its query returned, the id
\* being assigned by the engine
CreatedRows(returned, toTyp) ==
    { [c \in ColNames(toTyp) \cup {"id"} |-> i] :
         i \in 1 .. Cardinality(returned) }

\* SchemaBuilder::create_inner: the temporary table, its rename, its rows;
\* readable: the engine accepts the query the closure built
create_inner(b, st, to, readable, rows) ==
    LET name    == tmp_table(b.scope)
        toTyp   == TypOf(target, to)
        created == new_table_inner(st, toTyp, name)
    IN  [b  |-> [b EXCEPT !.scope = @ + 1,
                          !.rename = Append(@, <<name, to>>),
                          !.calls = @ + 1],
         st |-> IF created = SqlError \/ ~readable
                THEN SqlError
                ELSE InsertRows(created, name, rows)]

\* what a call on the builder leaves: the builder and the transaction
BuilderCall(res, what) ==
    /\ pc = "tables"
    /\ builder.calls < MaxOps
    /\ IF res.st = SqlError
       THEN Panics("sql") /\ UNCHANGED trace
       ELSE /\ builder' = res.b
            /\ txn' = res.st
            /\ trace' = Append(trace, what)
            /\ UNCHANGED <<disk, txOpen, fkOn, allowed, stuff, pc, mS, target,
                           dbh, snap, initRan, verified, stamped, why,
                           sessions, closure, qvars>>

\* the live table has the columns of the declared table that the query reads
Readable(st, from, cols) ==
    /\ from \in DOMAIN st.tabs
    /\ cols \subseteq {c.name : c \in st.tabs[from].columns}

\* SchemaBuilder::migrate_table::<From, To>
migrate_table ==
    \E from \in TableNames(mS), to \in TableNames(target), dflt \in {0, 1} :
        LET toTyp    == TypOf(target, to)
            readable == Readable(txn, from,
                            {"id"} \cup (ColNames(TypOf(mS, from))
                                         \cap ColNames(toTyp)))
            rows     == IF readable
                        THEN AlteredRows(txn, from, toTyp, dflt) ELSE {}
            res      == create_inner(builder, txn, to, readable, rows)
        IN  BuilderCall([res EXCEPT !.b.drop = Append(@, from)], "create")

\* SchemaBuilder::create_from::<FromSchema, To>: the closure joins the table
\* src and returns Create::new of a row closure ("new") or Create::empty;
\* the row closure of Create::empty is that of NeverCreate
create_from ==
    \E to \in TableNames(target), src \in TableNames(mS),
       create \in {"new", "empty"} :
        LET toTyp    == TypOf(target, to)
            readable == Readable(txn, src, {"id"})
            filter   == IF create = "empty" THEN EmptyFilter ELSE TRUE
            returned == IF readable THEN QueryRows(txn, src, filter) ELSE {}
            res      == create_inner(builder, txn, to, readable,
                                     CreatedRows(returned, toTyp))
        IN  IF create = "empty" /\ returned # {}
               /\ new_table_inner(txn, toTyp, tmp_table(builder.scope))
                      # SqlError
            THEN \* "prepared(row, reader)" reaches unreachable!()
                 /\ pc = "tables"
                 /\ builder.calls < MaxOps
                 /\ Panics("unreachable")
                 /\ UNCHANGED trace
            ELSE BuilderCall(res, IF create = "empty" THEN "create_empty"
                                  ELSE "create")

\* (C27 mutant) the DROP is executed where it is asked for
DropAtOnce(b, st, t) ==
    [b  |-> [b EXCEPT !.calls = @ + 1],
     st |-> DropTable(st, t)]

\* "self.drop.push(step)": the DROP is kept for after Migration::tables
push_drop(b, st, t) ==
    [b  |-> [b EXCEPT !.drop = Append(@, t), !.calls = @ + 1],
     st |-> st]

\* SchemaBuilder::drop_table::<T>
drop_table ==
    \E t \in TableNames(mS) :
        BuilderCall(push_drop(builder, txn, t), "queue_drop")

\* Migration::tables returns
tables_done ==
    /\ pc = "tables"
    /\ pc' = StepAfter("tables")
    /\ UNCHANGED <<disk, txn, txOpen, fkOn, allowed, stuff, mS, target,
                   builder, dbh, snap, initRan, verified, stamped, trace,
                   why, sessions, closure, qvars>>

RECURSIVE ExecDrops(_, _)
ExecDrops(st, drops) ==
    IF drops = <<>> THEN st
    ELSE ExecDrops(DropTable(st, Head(drops)), Tail(drops))

\* (C28 mutant) the temporary tables keep their names
ExecRenamesNone(st, renames) == st

RECURSIVE ExecRenames(_, _)
ExecRenames(st, renames) ==
    IF renames = <<>> THEN st
    ELSE ExecRenames(RenameTable(st, Head(renames)[1], Head(renames)[2]),
                     Tail(renames))

\* a statement loop of migrate: the transaction after it, or a panic
Statements(at, after, what) ==
    /\ pc = at
    /\ IF after = SqlError
       THEN Panics("sql") /\ UNCHANGED trace
       ELSE /\ txn' = after
            /\ pc' = StepAfter(at)
            /\ Returns(at)
            /\ trace' = trace \o what
            /\ UNCHANGED <<disk, txOpen, fkOn, allowed, stuff, target,
                           builder, dbh, snap, initRan, verified, stamped,
                           why, sessions, closure, qvars>>

\* "for drop in builder.drop"
drops ==
    Statements("drops", ExecDrops(txn, builder.drop),
               [i \in 1 .. Len(builder.drop) |-> "drop"])

\* "for rename in builder.rename"
renames ==
    Statements("renames", ExecRenames(txn, builder.rename),
               [i \in 1 .. Len(builder.rename) |-> "rename"])

\* foreign_key_check::<N>(conn)
verify ==
    /\ pc = "verify"
    /\ LET res == foreign_key_check(target, txn)
       IN  IF res = "ok"
           THEN /\ pc' = StepAfter("verify")
                /\ Returns("verify")
                /\ verified' = verified \cup {target}
                /\ trace' = trace \o <<"fk_check", "schema_check">>
                /\ UNCHANGED <<disk, txn, txOpen, fkOn, allowed, stuff,
                               target, builder, dbh, snap, initRan, stamped,
                               why, sessions, closure, qvars>>
           ELSE /\ Panics(res)
                /\ trace' = IF res = "fk" THEN trace
                            ELSE Append(trace, "fk_check")

\* set_user_version(conn, N::VERSION)
stamp ==
    /\ pc = "stamp"
    /\ txn' = set_user_version(txn, target)
    /\ stamped' = stamped \cup {target}
    /\ trace' = Append(trace, "stamp")
    /\ pc' = StepAfter("stamp")
    /\ Returns("stamp")
    /\ UNCHANGED <<disk, txOpen, fkOn, allowed, stuff, target, builder,
                   dbh, snap, initRan, verified, why, sessions, closure, qvars>>

\* (C29 mutant) no store is accepted
AcceptsNever(uv, S) == FALSE

\* (C7 mutant) a store stamped beyond S is accepted too
AcceptsNewer(uv, S) == uv >= S

\* "Returns None if the database schema version is newer than `S`"
Accepts(uv, S) == uv = S

\* Migrator::<S>::finish
finish ==
    \E t \in LocalClients :
    /\ pc = "migrator"
    /\ stuff' = reset(stuff, t)
    /\ IF strong_count(stuff') # 1
       THEN \* Rc::into_inner returns None and the unwrap panics: the
            \* Migrator is dropped, a LocalClient keeps the transaction
            /\ pc' = "panicked"
            /\ why' = "into_inner"
            /\ UNCHANGED <<disk, txn, txOpen, fkOn, dbh>>
       ELSE IF ~Accepts(user_version(txn), mS)
       THEN \* return None: the OwnedTransaction is dropped
            /\ pc' = "finish_none"
            /\ disk' = Dropped(txn)
            /\ txn' = disk'
            /\ txOpen' = FALSE
            /\ UNCHANGED <<fkOn, dbh, why>>
       ELSE \* set_drop_behavior(Commit); into_heads drops the transaction
            LET c == ConnRun([fk |-> fkOn, tx |-> txOpen], FinishSteps)
            IN
            /\ pc' = "db"
            /\ disk' = txn
            /\ txn' = disk'
            /\ txOpen' = c.tx
            /\ fkOn' = c.fk
            /\ dbh' = [version |-> mS, schema_version |-> schema_version(txn)]
            /\ UNCHANGED why
    /\ UNCHANGED <<allowed, mS, target, builder, snap, initRan, verified,
                   stamped, trace, sessions, closure, qvars>>

\* the process ends: what it still holds is dropped, an open transaction is
\* rolled back, and the next process finds the store as persisted
exit ==
    /\ pc \in {"prepare", "migrator", "db", "none", "finish_none", "panicked"}
    /\ sessions < MaxSessions
    /\ sessions' = sessions + 1
    /\ disk' = IF txOpen THEN Dropped(txn) ELSE disk
    /\ txn' = disk'
    /\ txOpen' = FALSE
    /\ fkOn' = "closed"
    /\ allowed' = TRUE
    /\ stuff' = {}
    /\ pc' = "idle"
    /\ mS' = 0
    /\ target' = 0
    /\ builder' = NoBuilder
    /\ dbh' = NoDb
    /\ snap' = disk'
    /\ initRan' = FALSE
    /\ verified' = {}
    /\ stamped' = {}
    /\ trace' = <<>>
    /\ why' = ""
    /\ closure' = "unset"
    /\ UNCHANGED qvars

Next ==
    \/ open
    \/ create_db_empty
    \/ create_db_sql
    \/ migrate
    \/ migrate_table
    \/ create_from
    \/ drop_table
    \/ tables_done
    \/ drops
    \/ renames
    \/ verify
    \/ stamp
    \/ finish
    \/ exit

Spec == Init /\ [][Next]_vars

\* ------------------------------------------- a second connection to the store
\* the store is locked against the writes of every other connection
Locked == txOpen /\ TransactionBehavior = "Exclusive"

\* another connection commits a write (CREATE TABLE other) unless the store
\* is locked; a transaction that is open does not see it
other_write ==
    /\ ~Locked
    /\ "other" \notin DOMAIN disk.tabs
    /\ disk' = new_table_inner(disk, AuthorTyp, "other")
    /\ txn' = IF txOpen THEN txn ELSE disk'
    /\ UNCHANGED <<txOpen, fkOn, allowed, stuff, pc, mS, target, builder, dbh,
                   snap, initRan, verified, stamped, trace, why, sessions,
                   closure, qvars>>

SharedInit == Init /\ disk = FreshStore

SharedNext == Next \/ other_write

\* the engine on a store that another connection writes to as well
SharedSpec == SharedInit /\ [][SharedNext]_vars

\* ----------------------------------------------------- the alias allocator
\* the query side starts with the process, whatever the store
QueryInit == Init /\ disk = FreshStore

\* (C17 mutant) the counter is read and left as it is
FetchAddLoadOnly(mem, val) == [old |-> mem, mem |-> mem]

\* AtomicU64::fetch_add(val, Relaxed): one atomic read-modify-write
fetch_add(mem, val) == [old |-> mem, mem |-> mem + val]

\* MyAlias::new() single-threaded: the alias and the counter it leaves
MyAlias_new(mem) ==
    LET r == fetch_add(mem, 1)
    IN  [alias |-> r.old, mem |-> r.mem]

\* MyAlias::new() on thread t, first statement: the fetch_add
new_fetch_add(t) ==
    /\ next[t] = NoCall
    /\ Len(names[t]) < MaxCalls
    /\ LET r == fetch_add(IDEN_NUM, 1)
       IN  /\ next' = [next EXCEPT ![t] = r.old]
           /\ IDEN_NUM' = r.mem
    /\ UNCHANGED <<joins, dbs, plan, select, names, built, declared, evars, xvars, mvars>>

\* MyAlias::new() on thread t, second statement: Self { name: next }
new_return(t) ==
    /\ next[t] # NoCall
    /\ names' = [names EXCEPT ![t] = Append(@, next[t])]
    /\ next' = [next EXCEPT ![t] = NoCall]
    /\ UNCHANGED <<IDEN_NUM, joins, dbs, plan, select, built, declared,
                   evars, xvars, mvars>>

AliasNext ==
    \E t \in Threads :
        \/ new_fetch_add(t)
        \/ new_return(t)

\* threads that call MyAlias::new concurrently
AliasSpec == QueryInit /\ [][AliasNext]_vars

\* ----------------------------------------------------------- the join cache
\* the foreign key columns a table type declares, and the table they reach
FkFields == {"author", "editor"}
NAME(col) == IF col = "author" THEN "author" ELSE "person"

NotJoined == -1

SeqMin(S) == CHOOSE i \in S : \A j \in S : i <= j

\* (C14 mutant) the list of joined tables is not searched
FindNothing(joined, name) == 0

\* joined.iter().find(|item| item.0 == name): the position found, or 0
Find(joined, name) ==
    LET hits == { i \in 1 .. Len(joined) : joined[i].field = name }
    IN  IF hits = {} THEN 0 ELSE SeqMin(hits)

\* (C15 mutant) the new entry is put in front of the others
PushFront(vec, item) == <<item>> \o vec

\* FrozenVec::push_get
push_get(vec, item) == Append(vec, item)

\* the position in joins of the Joins whose table alias is a
JoinsAt(a) == CHOOSE i \in 1 .. Len(joins) : joins[i].table = a

\* the Joins of a table of the query: Joins { table: MyAlias::new(), joined:
\* FrozenVec::new() }
from_table ==
    /\ IDEN_NUM < MaxAlias
    /\ joins = <<>>
    /\ LET a == MyAlias_new(IDEN_NUM)
       IN  /\ joins' = <<[table |-> a.alias, joined |-> <<>>]>>
           /\ IDEN_NUM' = a.mem
    /\ UNCHANGED <<dbs, plan, select, next, names, built, declared, evars, xvars, mvars>>

\* MyIdenT::iden_any(joins, col) for a foreign key column: a Db value with
\* an empty OnceCell over the list of joins.table
iden_any ==
    \E j \in 1 .. Len(joins), col \in FkFields :
        /\ Len(dbs) < MaxDbs
        /\ dbs' = Append(dbs, [table |-> joins[j].table, col |-> col,
                               inner |-> NotJoined, derefs |-> 0])
        /\ UNCHANGED <<IDEN_NUM, joins, plan, select, next, names, built, declared, evars, xvars, mvars>>

\* <Db<T> as Deref>::deref
deref ==
    \E h \in 1 .. Len(dbs) :
        LET db    == dbs[h]
            j     == JoinsAt(db.table)
            found == Find(joins[j].joined, db.col)
            a     == MyAlias_new(IDEN_NUM)
        IN
        /\ db.derefs < MaxDeref
        /\ IF db.inner # NotJoined
           THEN \* get_or_init: the cell is set
                /\ dbs' = [dbs EXCEPT ![h].derefs = @ + 1]
                /\ UNCHANGED <<IDEN_NUM, joins>>
           ELSE IF found # 0
           THEN /\ dbs' = [dbs EXCEPT
                             ![h].derefs = @ + 1,
                             ![h].inner = joins[j].joined[found].table]
                /\ UNCHANGED <<IDEN_NUM, joins>>
           ELSE /\ IDEN_NUM < MaxAlias
                /\ IDEN_NUM' = a.mem
                /\ joins' = Append(
                       [joins EXCEPT
                          ![j].joined = push_get(@, [field |-> db.col,
                                                     name  |-> NAME(db.col),
                                                     table |-> a.alias])],
                       [table |-> a.alias, joined |-> <<>>])
                /\ dbs' = [dbs EXCEPT ![h].derefs = @ + 1,
                                      ![h].inner = a.alias]
        /\ UNCHANGED <<plan, select, next, names, built, declared, evars, xvars, mvars>>

JoinNext ==
    \/ from_table
    \/ iden_any
    \/ deref

\* the building of the joins of one query
JoinSpec == QueryInit /\ [][JoinNext]_vars

\* ---------------------------------------------------------- the select plan
QueryTables == {"book", "author"}
QueryColumns == {"title", "name"}

\* Source::Table(MyTable { table, columns }) and Source::Select(MySelect)
TableSource(name, columns) ==
    [kind |-> "Table", table |-> name, columns |-> columns, select |-> NoPlan]
SelectSource(p) ==
    [kind |-> "Select", table |-> "", columns |-> <<>>, select |-> p]

\* a table is added to the sources of the plan
table ==
    \E name \in QueryTables :
        /\ select = NoSelect
        /\ Len(plan.sources) < MaxSources
        /\ plan' = [plan EXCEPT !.sources = Append(@, TableSource(name, <<>>))]
        /\ UNCHANGED <<IDEN_NUM, joins, dbs, select, next, names, built, declared, evars, xvars, mvars>>

\* a column of a table source is referenced for the first time: it gets the
\* name it will have in the statement
column ==
    \E i \in 1 .. Len(plan.sources), col \in QueryColumns :
        LET a == MyAlias_new(IDEN_NUM)
            columns == plan.sources[i].columns
        IN  /\ select = NoSelect
            /\ IDEN_NUM < MaxAlias
            /\ plan.sources[i].kind = "Table"
            /\ \A k \in 1 .. Len(columns) : columns[k][1] # col
            /\ plan' = [plan EXCEPT
                          !.sources[i].columns = Append(@, <<col, a.alias>>)]
            /\ IDEN_NUM' = a.mem
            /\ UNCHANGED <<joins, dbs, select, next, names, built, declared, evars, xvars, mvars>>

\* SimpleExpr: a column of a joined table, a projected column by its alias,
\* an equality, a constant, the count of the rows
ExprCol(tbl_alias, col) == <<"col", tbl_alias, col>>
ExprAlias(alias) == <<"alias", alias>>
ExprEq(a, b) == <<"eq", a, b>>
ExprConst(v) == <<"const", v>>
ExprCount == <<"count">>

\* an expression is added to group, aggr or sort under a new alias
project ==
    \E list \in {"group", "aggr", "sort"} :
        LET a == MyAlias_new(IDEN_NUM)
        IN  /\ select = NoSelect
            /\ IDEN_NUM < MaxAlias
            /\ plan.sources # <<>>
            /\ plan' = [plan EXCEPT
                          ![list] = Append(@, <<a.alias, ExprConst(0)>>)]
            /\ IDEN_NUM' = a.mem
            /\ UNCHANGED <<joins, dbs, select, next, names, built, declared, evars, xvars, mvars>>

\* a nested plan is added to the sources: one table, a column of it
\* (or none) and an aggregate over it
nested ==
    \E name \in QueryTables, col \in QueryColumns, referenced \in BOOLEAN :
        LET c == MyAlias_new(IDEN_NUM)
            m == IF referenced THEN c.mem ELSE IDEN_NUM
            g == MyAlias_new(m)
            columns == IF referenced THEN <<(<<col, c.alias>>)>> ELSE <<>>
            inner == [NoPlan EXCEPT
                        !.sources = <<TableSource(name, columns)>>,
                        !.aggr = <<(<<g.alias, ExprCount>>)>>]
        IN  /\ select = NoSelect
            /\ g.mem <= MaxAlias
            /\ Len(plan.sources) < MaxSources
            /\ plan' = [plan EXCEPT !.sources = Append(@, SelectSource(inner))]
            /\ IDEN_NUM' = g.mem
            /\ UNCHANGED <<joins, dbs, select, next, names, built, declared, evars, xvars, mvars>>

\* (C16 mutant) the column is projected under the alias of its table
ColumnNameOfTable(tbl_alias, alias) == tbl_alias

\* expr_as(Expr::col((tbl_alias, col_alias)), alias): the name of the column
ColumnName(tbl_alias, alias) == alias

\* "for (col, alias) in &def.columns"
ColumnExprs(tbl_alias, columns) ==
    [k \in 1 .. Len(columns) |->
        [alias |-> ColumnName(tbl_alias, columns[k][2]),
         expr  |-> ExprCol(tbl_alias, columns[k][1])]]

\* "for (alias, e) in ..": expr_as(e, alias)
AliasExprs(list) ==
    [k \in 1 .. Len(list) |-> [alias |-> list[k][1], expr |-> list[k][2]]]

RECURSIVE into_select(_, _)
RECURSIVE JoinSources(_, _, _)

\* "for source in self.sources.iter()": the statement and the counter after
\* the sources from the i-th on are joined
JoinSources(sources, i, acc) ==
    IF i > Len(sources) THEN acc
    ELSE LET src == sources[i]
         IN  IF src.kind = "Select"
             THEN LET sub == into_select(src.select, acc.mem)
                      a   == MyAlias_new(sub.mem)
                  IN  JoinSources(sources, i + 1,
                         [select |-> [acc.select EXCEPT
                             !.from = Append(@, [alias   |-> a.alias,
                                                 table   |-> "",
                                                 lateral |-> <<sub.select>>])],
                          mem |-> a.mem])
             ELSE LET a == MyAlias_new(acc.mem)
                  IN  JoinSources(sources, i + 1,
                         [select |-> [acc.select EXCEPT
                             !.from = Append(@, [alias   |-> a.alias,
                                                 table   |-> src.table,
                                                 lateral |-> <<>>]),
                             !.exprs = @ \o ColumnExprs(a.alias, src.columns)],
                          mem |-> a.mem])

\* (C26 mutant) the term is put in front of the ORDER BY terms
OrderByFront(terms, alias) ==
    <<[col |-> alias, order |-> "Asc"]>> \o terms

\* select.order_by(alias, sea_query::Order::Asc)
order_by(terms, alias) ==
    Append(terms, [col |-> alias, order |-> "Asc"])

RECURSIVE GroupLoop(_, _, _)
RECURSIVE AggrLoop(_, _, _)
RECURSIVE SortLoop(_, _, _)

\* "for (alias, group) in self.group.iter()"
GroupLoop(sel, group, i) ==
    IF i > Len(group) THEN sel
    ELSE GroupLoop([sel EXCEPT
                      !.exprs = @ \o AliasExprs(<<group[i]>>),
                      !.group_by = Append(@, group[i][1]),
                      !.order_by = order_by(@, group[i][1])],
                   group, i + 1)

\* "for (alias, aggr) in &self.aggr"
AggrLoop(sel, aggr, i) ==
    IF i > Len(aggr) THEN sel
    ELSE AggrLoop([sel EXCEPT !.exprs = @ \o AliasExprs(<<aggr[i]>>)],
                  aggr, i + 1)

\* "for (alias, sort) in &self.sort"
SortLoop(sel, sort, i) ==
    IF i > Len(sort) THEN sel
    ELSE SortLoop([sel EXCEPT
                     !.exprs = @ \o AliasExprs(<<sort[i]>>),
                     !.order_by = order_by(@, sort[i][1])],
                  sort, i + 1)

\* "for filter in &self.filters": select.and_where(filter.clone())
and_where(sel, conds) ==
    [sel EXCEPT !.wheres = @ \o conds]

\* MySelect::into_select: the statement, and the counter it leaves
into_select(p, mem) ==
    LET joined  == JoinSources(p.sources, 1, [select |-> NoSelect, mem |-> mem])
        where   == and_where(joined.select, p.filters)
        grouped == GroupLoop(where, p.group, 1)
        aggred  == AggrLoop(grouped, p.aggr, 1)
    IN  [select |-> SortLoop(aggred, p.sort, 1),
         mem |-> joined.mem]

\* the aliases under which the statement projects an expression
Projected(sel) == {sel.exprs[k].alias : k \in 1 .. Len(sel.exprs)}

\* the plan is compiled
compile ==
    /\ select = NoSelect
    /\ plan.sources # <<>>
    /\ LET res == into_select(plan, IDEN_NUM)
       IN  /\ select' = res.select
           /\ IDEN_NUM' = res.mem
    /\ UNCHANGED <<joins, dbs, plan, next, names, built, declared, evars, xvars, mvars>>

PlanNext ==
    \/ table
    \/ column
    \/ project
    \/ nested
    \/ compile

\* the building and the compilation of one select plan
PlanSpec == QueryInit /\ [][PlanNext]_vars

\* ------------------------------------------- the builders of a Schema Model
\* the columns a table type may declare: name, type, nullable, foreign key
DeclColumns ==
    { [name |-> "a", typ |-> "integer", nullable |-> FALSE, fk |-> NoFk],
      [name |-> "a", typ |-> "text", nullable |-> FALSE, fk |-> NoFk],
      [name |-> "b", typ |-> "integer", nullable |-> FALSE, fk |-> NoFk],
      [name |-> "b", typ |-> "integer", nullable |-> TRUE, fk |-> NoFk],
      [name |-> "b", typ |-> "integer", nullable |-> FALSE,
       fk |-> <<"t", "id">>] }

\* the lists of columns handed to TypBuilder::unique
DeclUniques == { <<"a">>, <<"a", "b">>, <<"b", "a">> }

DeclTables == {"t", "u"}

\* the order of the strings that occur in a Schema Model
StringOrder == <<"a", "b", "id", "integer", "t", "text", "u">>
StringRank(x) == CHOOSE i \in 1 .. Len(StringOrder) : StringOrder[i] = x

\* the keys the collections of hash are ordered by: a column by name, type,
\* nullable and foreign key, a unique by its columns, a table by its name
ColumnKey(c) ==
    <<StringRank(c.name), StringRank(c.typ), IF c.nullable THEN 1 ELSE 0,
      IF c.fk = NoFk THEN 0 ELSE 1>>
UniqueKey(u) == [i \in 1 .. Len(u.columns) |-> StringRank(u.columns[i])]
TableKey(t) == <<StringRank(t[1])>>

RECURSIVE KeyLess(_, _)
KeyLess(k1, k2) ==
    IF k1 = <<>> THEN k2 # <<>>
    ELSE IF k2 = <<>> THEN FALSE
    ELSE IF Head(k1) # Head(k2) THEN Head(k1) < Head(k2)
    ELSE KeyLess(Tail(k1), Tail(k2))

\* the insert of the collections of hash: an item that is not in the
\* collection yet is put at place k + 1, k items coming before it
InsertAt(vec, item, k) ==
    IF \E i \in 1 .. Len(vec) : vec[i] = item THEN vec
    ELSE SubSeq(vec, 1, k) \o <<item>> \o SubSeq(vec, k + 1, Len(vec))

insert_string(vec, item) ==
    InsertAt(vec, item,
        Cardinality({ i \in 1 .. Len(vec) :
                        StringRank(vec[i]) < StringRank(item) }))

insert_column(vec, item) ==
    InsertAt(vec, item,
        Cardinality({ i \in 1 .. Len(vec) :
                        KeyLess(ColumnKey(vec[i]), ColumnKey(item)) }))

insert_unique(vec, item) ==
    InsertAt(vec, item,
        Cardinality({ i \in 1 .. Len(vec) :
                        KeyLess(UniqueKey(vec[i]), UniqueKey(item)) }))

insert_table(vec, item) ==
    InsertAt(vec, item,
        Cardinality({ i \in 1 .. Len(vec) :
                        KeyLess(TableKey(vec[i]), TableKey(item)) }))

\* (C19 mutant) the column is pushed at the end of the columns
TypBuilderColPush(ast, item) ==
    [ast EXCEPT !.columns = Append(@, item)]

\* TypBuilder::col: self.ast.columns.insert(item)
TypBuilder_col(ast, item) ==
    [ast EXCEPT !.columns = insert_column(@, item)]

\* "for &col in cols { unique.columns.insert(col.to_owned()) }"
RECURSIVE UniqueOf(_, _)
UniqueOf(unique, cols) ==
    IF cols = <<>> THEN unique
    ELSE UniqueOf([unique EXCEPT !.columns = insert_string(@, Head(cols))],
                  Tail(cols))

\* TypBuilder::unique: self.ast.uniques.insert(unique)
TypBuilder_unique(ast, cols) ==
    [ast EXCEPT !.uniques = insert_unique(@, UniqueOf([columns |-> <<>>], cols))]

\* TableTypBuilder::table: self.ast.tables.insert((T::NAME, b.ast))
TableTypBuilder_table(ast, name, typ) ==
    [ast EXCEPT !.tables = insert_table(@, <<name, typ>>)]

\* a call a program makes on its builders
Declares(p) == declared[p].calls < MaxDecls

\* T::typs calls f.col::<..>(name): a column name is declared once per table
typs_col(p) ==
    \E item \in DeclColumns :
        /\ Declares(p)
        /\ \A d \in declared[p].typ : d[1] = "col" => d[2].name # item.name
        /\ built' = [built EXCEPT ![p].typ = TypBuilder_col(@, item)]
        /\ declared' = [declared EXCEPT
                          ![p].typ = @ \cup {<<"col", item>>},
                          ![p].calls = @ + 1]
        /\ UNCHANGED <<IDEN_NUM, joins, dbs, plan, select, next, names, evars, xvars, mvars>>

\* T::typs calls f.unique(cols)
typs_unique(p) ==
    \E cols \in DeclUniques :
        /\ Declares(p)
        /\ built' = [built EXCEPT ![p].typ = TypBuilder_unique(@, cols)]
        /\ declared' = [declared EXCEPT
                          ![p].typ = @ \cup {<<"unique",
                                              {cols[i] : i \in 1 .. Len(cols)}>>},
                          ![p].calls = @ + 1]
        /\ UNCHANGED <<IDEN_NUM, joins, dbs, plan, select, next, names, evars, xvars, mvars>>

\* S::typs calls b.table::<T>(), whose T::typs made the calls above: a table
\* name is declared once per schema
typs_table(p) ==
    \E name \in DeclTables :
        /\ Declares(p)
        /\ \A t \in declared[p].schema : t[1] # name
        /\ built' = [built EXCEPT
                       ![p].schema = TableTypBuilder_table(@, name, built[p].typ),
                       ![p].typ = NoTable]
        /\ declared' = [declared EXCEPT
                          ![p].schema = @ \cup {<<name, declared[p].typ>>},
                          ![p].typ = {},
                          ![p].calls = @ + 1]
        /\ UNCHANGED <<IDEN_NUM, joins, dbs, plan, select, next, names, evars, xvars, mvars>>

SchemaNext ==
    \E p \in Programs :
        \/ typs_col(p)
        \/ typs_unique(p)
        \/ typs_table(p)

\* two programs that declare their schemas call by call
SchemaSpec == QueryInit /\ [][SchemaNext]_vars

\* -------------------------------------------------- the expression algebra
\* the number of expression nodes built
MaxNodes == 3

\* the type tags (MyIdenT) of columns and constants; "i64?" is Option<i64>
ColumnTyps == {"i64", "i64?"}
ConstTyps == {"text"}

\* the plan in which a nested plan is built
Outer(s) == IF s = 3 THEN {1} ELSE {}

\* Db<'t, T> { field: FieldAlias { table, .. } }
Db(t, T, alias) == <<"Db", T, t, alias>>
\* Const<T>
Const(T) == <<"Const", T>>
\* the nodes that the methods of Value and ValueOpt return
MyAdd(a, b) == <<"MyAdd", a, b>>
MyLt(a) == <<"MyLt", a>>
MyEq(a, b) == <<"MyEq", a, b>>
MyNot(a) == <<"MyNot", a>>
UnwrapOr(a, b) == <<"UnwrapOr", a, b>>

\* "type Inner" of ValueOpt: Typ = Option<Self::Inner>
Inner(T) == IF T = "i64?" THEN "i64" ELSE "none"

\* impl ValueOpt<'t> for Db<'t, Option<T>>
IsValueOpt(n) == n[1] = "Db" /\ Inner(n[2]) # "none"

RECURSIVE Typ(_)
\* "type Typ" of the impl of Value for the node
Typ(n) ==
    CASE n[1] \in {"Db", "Const"}    -> n[2]
      [] n[1] \in {"MyAdd", "MyNot"} -> Typ(n[2])
      [] n[1] \in {"MyLt", "MyEq"}   -> "bool"
      [] n[1] = "UnwrapOr"           -> Inner(Typ(n[2]))

RECURSIVE ValueFor(_)

\* (C24 mutant) the node of two values is a value wherever its first is
LeftValue(a, b) == ValueFor(a)

\* "impl<'t, A: Value<'t>, B: Value<'t>> Value<'t> for ..": the lifetimes 't
\* for which both operands are values
BothValue(a, b) == ValueFor(a) \cap ValueFor(b)

\* the lifetimes 't for which the node implements Value<'t>
ValueFor(n) ==
    CASE n[1] = "Db"                          -> {n[3]}
      [] n[1] = "Const"                       -> Scopes
      [] n[1] \in {"MyNot", "MyLt"}           -> ValueFor(n[2])
      [] n[1] \in {"MyAdd", "MyEq", "UnwrapOr"} -> BothValue(n[2], n[3])

\* a node is added to the nodes built
Build(n) ==
    /\ Cardinality(nodes) < MaxNodes
    /\ n \notin nodes
    /\ nodes' = nodes \cup {n}
    /\ UNCHANGED <<IDEN_NUM, joins, dbs, plan, select, next, names, built,
                   declared, srcs, filters, xvars, mvars>>

\* a plan joins its table, under a new alias; the plans start in turn
join_table ==
    \E s \in Scopes :
        LET a == MyAlias_new(IDEN_NUM)
        IN  /\ IDEN_NUM < MaxAlias
            /\ srcs[s] = {}
            /\ \A x \in Scopes : x < s => srcs[x] # {}
            /\ srcs' = [srcs EXCEPT ![s] = @ \cup {a.alias}]
            /\ IDEN_NUM' = a.mem
            /\ UNCHANGED <<joins, dbs, plan, select, next, names, built,
                           declared, nodes, filters, xvars, mvars>>

\* a column of a table that plan t joined, as a value: it carries 't
db_value ==
    \E t \in Scopes, T \in ColumnTyps :
        \E alias \in srcs[t] : Build(Db(t, T, alias))

\* Const::new
const_new ==
    \E T \in ConstTyps : Build(Const(T))

\* Value::add
add ==
    \E a \in nodes, b \in nodes :
        /\ BothValue(a, b) # {}
        /\ Build(MyAdd(a, b))

\* Value::lt
lt ==
    \E a \in nodes : Build(MyLt(a))

\* (C23) Value::eq<T: Value<'t>>(self, rhs: T) -> MyEq<Self, T>
eq ==
    \E a \in nodes, b \in nodes :
        /\ BothValue(a, b) # {}
        /\ Build(MyEq(a, b))

\* Value::not
not ==
    \E a \in nodes : Build(MyNot(a))

\* ValueOpt::unwrap_or<T: Value<'t, Typ = Self::Inner>>
unwrap_or ==
    \E a \in nodes, b \in nodes :
        /\ IsValueOpt(a)
        /\ Typ(b) = Inner(Typ(a))
        /\ BothValue(a, b) # {}
        /\ Build(UnwrapOr(a, b))

\* a plan takes a node; filters keeps the node taken last
Take(s, n) ==
    /\ n \notin filters[s]
    /\ filters' = [x \in Scopes |-> IF x = s THEN {n} ELSE {}]
    /\ UNCHANGED <<IDEN_NUM, joins, dbs, plan, select, next, names, built,
                   declared, srcs, nodes, xvars, mvars>>

\* the plan of lifetime 't takes a value of that lifetime as a filter
filter ==
    \E s \in Scopes, n \in nodes :
        /\ s \in ValueFor(n)
        /\ Take(s, n)

\* rows.filter_on(val, on) in a nested plan: val is a value of the nested
\* plan, on a value of the plan around it
filter_on ==
    \E s \in Scopes, val \in nodes, on \in nodes :
        /\ s \in ValueFor(val)
        /\ Outer(s) \cap ValueFor(on) # {}
        /\ Take(s, MyEq(val, on))

ExprNext ==
    \/ join_table
    \/ db_value
    \/ const_new
    \/ add
    \/ lt
    \/ eq
    \/ not
    \/ unwrap_or
    \/ filter
    \/ filter_on

\* the building of expression nodes and their use in plans
ExprSpec == QueryInit /\ [][ExprNext]_vars

\* --------------------------------------------------- the execution of a query
\* NULL
Null == -1

\* a row to which nothing is joined yet
NoRow == [tabs |-> <<>>, vals |-> <<>>]

RECURSIVE SortById(_)
\* the rows of a table as the engine walks them
SortById(rows) ==
    IF rows = {} THEN <<>>
    ELSE LET r == CHOOSE x \in rows : \A y \in rows : x.id <= y.id
         IN  <<r>> \o SortById(rows \ {r})

RECURSIVE Flatten(_)
Flatten(seqs) ==
    IF Len(seqs) = 0 THEN <<>> ELSE Head(seqs) \o Flatten(Tail(seqs))

RECURSIVE EvalExpr(_, _)
\* the value of an expression for the joined row b
EvalExpr(e, b) ==
    CASE e[1] = "col"   -> b.tabs[e[2]][e[3]]
      [] e[1] = "alias" -> b.vals[e[2]]
      [] e[1] = "eq"    -> EvalExpr(e[2], b) = EvalExpr(e[3], b)
      [] e[1] = "const" -> e[2]

\* the row b joined with a row of the table of alias tbl_alias: the columns
\* the statement projects of it are known under their aliases
Bind(sel, b, tbl_alias, row) ==
    LET cols  == {k \in 1 .. Len(sel.exprs) :
                     /\ sel.exprs[k].expr[1] = "col"
                     /\ sel.exprs[k].expr[2] = tbl_alias}
        named == [a \in {sel.exprs[k].alias : k \in cols} |->
                     row[sel.exprs[CHOOSE k \in cols :
                                      sel.exprs[k].alias = a].expr[3]]]
    IN  [tabs |-> (tbl_alias :> row) @@ b.tabs,
         vals |-> named @@ b.vals]

\* the joined row passes every condition of the WHERE clause
Passes(sel, b) ==
    \A k \in 1 .. Len(sel.wheres) : EvalExpr(sel.wheres[k], b)

RECURSIVE Where(_, _)
Where(sel, bs) ==
    IF Len(bs) = 0 THEN <<>>
    ELSE (IF Passes(sel, Head(bs)) THEN <<Head(bs)>> ELSE <<>>)
         \o Where(sel, Tail(bs))

\* the statement projects an aggregate
IsAggregate(sel) ==
    \E k \in 1 .. Len(sel.exprs) : sel.exprs[k].expr[1] = "count"

\* the expression projected under an alias
ExprOf(sel, a) ==
    sel.exprs[CHOOSE k \in 1 .. Len(sel.exprs) : sel.exprs[k].alias = a].expr

\* (C25 mutant) no row where no row is aggregated
AggregateRowsOfSome(sel, bs) ==
    IF Len(bs) = 0 THEN <<>>
    ELSE <<[a \in Projected(sel) |->
              IF ExprOf(sel, a)[1] = "count" THEN Len(bs)
              ELSE EvalExpr(ExprOf(sel, a), bs[1])]>>

\* the rows of an aggregate statement without GROUP BY term: one row, also
\* where no row is aggregated
AggregateRows(sel, bs) ==
    <<[a \in Projected(sel) |->
         IF ExprOf(sel, a)[1] = "count" THEN Len(bs)
         ELSE IF Len(bs) = 0 THEN Null
         ELSE EvalExpr(ExprOf(sel, a), bs[1])]>>

\* the row the statement returns for a joined row
ProjectRow(sel, b) ==
    [a \in Projected(sel) |-> EvalExpr(ExprOf(sel, a), b)]

RECURSIVE Eval(_, _, _)
RECURSIVE Joined(_, _, _, _)

\* the joins from the i-th on, for the rows bs joined so far: an inner join
\* with a condition that always holds; a lateral statement is evaluated for
\* each row it is joined to
Joined(sel, i, bs, d) ==
    IF i > Len(sel.from) THEN bs
    ELSE LET f == sel.from[i]
             With(b) ==
                 IF f.lateral = <<>>
                 THEN LET rows == SortById(d[f.table])
                      IN  [k \in 1 .. Len(rows) |->
                              Bind(sel, b, f.alias, rows[k])]
                 ELSE LET sub == Eval(f.lateral[1], b, d)
                      IN  [k \in 1 .. Len(sub) |->
                              [b EXCEPT !.vals = sub[k] @@ @]]
         IN  Joined(sel, i + 1,
                    Flatten([k \in 1 .. Len(bs) |-> With(bs[k])]), d)

\* statement.query: the rows of a statement without GROUP BY and ORDER BY
\* term over the tables d, for the row env of the statement around it
Eval(sel, env, d) ==
    LET bs == Where(sel, Joined(sel, 1, <<env>>, d))
    IN  IF IsAggregate(sel) THEN AggregateRows(sel, bs)
        ELSE [k \in 1 .. Len(bs) |-> ProjectRow(sel, bs[k])]

RECURSIVE prepare(_, _, _, _)
\* dummy.prepare(Cacher { ast }): every value from the i-th on that the dummy
\* reads is selected under a new name
prepare(p, dummy, i, mem) ==
    IF i > Len(dummy) THEN [plan |-> p, mem |-> mem]
    ELSE LET a == MyAlias_new(mem)
         IN  prepare([p EXCEPT !.select = Append(@, <<dummy[i], a.alias>>)],
                     dummy, i + 1, a.mem)

\* MySelect::simple: the statement of the plan, with the selected values
simple(p, mem) ==
    LET res == into_select(p, mem)
    IN  [res EXCEPT !.select.exprs =
            @ \o [k \in 1 .. Len(p.select) |->
                     [alias |-> p.select[k][2], expr |-> p.select[k][1]]]]

\* the names under which the row decoder finds its values
Names == [k \in 1 .. Len(plan.select) |-> plan.select[k][2]]

\* f(row): the row decoder that prepare returned
Decode(cols, row) == [k \in 1 .. Len(cols) |-> row[cols[k]]]

\* (C22 mutant) the decoded row is put in front
OutPushFront(vec, item) == <<item>> \o vec

\* out.push(f(row))
push(vec, item) == Append(vec, item)

\* (C25) val = on, the condition that filter_on adds to the nested plan
filter_on_expr(val, on) == ExprEq(val, on)

\* a row is inserted into playlist
insert_playlist ==
    /\ xpc = "building"
    /\ Cardinality(data.playlist) < MaxRows
    /\ data' = [data EXCEPT
                  !.playlist = @ \cup {[id |-> Cardinality(@) + 1]}]
    /\ UNCHANGED <<IDEN_NUM, joins, dbs, plan, select, next, names, built,
                   declared, evars, wanted, cursor, fetched, out, calls, xpc,
                   mvars>>

\* a row that refers to a playlist is inserted into playlist_track
insert_playlist_track ==
    \E p \in data.playlist :
        /\ xpc = "building"
        /\ Cardinality(data.playlist_track) < MaxRows
        /\ data' = [data EXCEPT
                      !.playlist_track =
                          @ \cup {[id |-> Cardinality(@) + 1,
                                   playlist |-> p.id]}]
        /\ UNCHANGED <<IDEN_NUM, joins, dbs, plan, select, next, names, built,
                       declared, evars, wanted, cursor, fetched, out, calls,
                       xpc, mvars>>

\* a query is built: its plan and the dummy that into_vec is given
BuildQuery(p, dummy, mem) ==
    /\ xpc = "building"
    /\ plan = NoPlan
    /\ plan' = p
    /\ wanted' = dummy
    /\ IDEN_NUM' = mem
    /\ UNCHANGED <<joins, dbs, select, next, names, built, declared, evars,
                   data, cursor, fetched, out, calls, xpc, mvars>>

\* the closure of list_all_genres: the rows of one table
list_all ==
    LET pl == MyAlias_new(IDEN_NUM)
    IN  BuildQuery([NoPlan EXCEPT
                      !.sources = <<TableSource("playlist",
                                                <<(<<"id", pl.alias>>)>>)>>],
                   <<ExprAlias(pl.alias)>>, pl.mem)

\* the closure of playlist_track_count: playlist, and a nested plan that
\* counts the rows of playlist_track of the playlist
playlist_track_count ==
    LET pl    == MyAlias_new(IDEN_NUM)
        plt   == MyAlias_new(pl.mem)
        count == MyAlias_new(plt.mem)
        inner == [NoPlan EXCEPT
                    !.sources = <<TableSource("playlist_track",
                                     <<(<<"playlist", plt.alias>>)>>)>>,
                    !.filters = <<filter_on_expr(ExprAlias(plt.alias),
                                                 ExprAlias(pl.alias))>>,
                    !.aggr = <<(<<count.alias, ExprCount>>)>>]
    IN  BuildQuery([NoPlan EXCEPT
                      !.sources = <<TableSource("playlist",
                                                <<(<<"id", pl.alias>>)>>),
                                    SelectSource(inner)>>],
                   <<ExprAlias(pl.alias), ExprAlias(count.alias)>>,
                   count.mem)

\* (C31 mutant) the statement is compiled from the plan as it was before
\* the row decoder was prepared
AstBeforePrepare(before, prepared) == [plan |-> before, mem |-> prepared.mem]

\* "self.ast.simple()" comes after "dummy.prepare(Cacher { ast })": the
\* plan compiled is the one that holds what prepare registered in it
AstAtSimple(before, prepared) == prepared

\* the decoder is prepared, the statement compiled and run; the engine
\* returns its rows in some order; loop: where the caller goes on
RunQuery(loop) ==
    LET prepared == prepare(plan, wanted, 1, IDEN_NUM)
        ast      == AstAtSimple(plan, prepared)
        compiled == simple(ast.plan, ast.mem)
        rows     == Eval(compiled.select, NoRow, data)
    IN  /\ xpc = "building"
        /\ plan # NoPlan
        /\ plan' = prepared.plan
        /\ select' = compiled.select
        /\ IDEN_NUM' = compiled.mem
        /\ \E order \in Permutations(1 .. Len(rows)) :
              cursor' = [k \in 1 .. Len(rows) |-> rows[order[k]]]
        /\ xpc' = loop
        /\ UNCHANGED <<joins, dbs, next, names, built, declared, evars, data,
                       wanted, fetched, out, calls, mvars>>

\* Query::into_vec_private up to the loop
into_vec == RunQuery("rows")

\* SchemaBuilder::create_inner from "create.inner.prepare(q.cacher())" up to
\* the loop, for the plan q that the closure filled; in the loop the decoded
\* row is what the INSERT writes
create_inner_rows == RunQuery("insert_rows")

\* "while let Some(row) = rows.next().unwrap()": out.push(f(row))
rows_next ==
    /\ xpc \in {"rows", "insert_rows"}
    /\ IF Len(cursor) = 0
       THEN /\ xpc' = "done"
            /\ UNCHANGED <<cursor, fetched, out, calls>>
       ELSE /\ cursor' = Tail(cursor)
            /\ fetched' = Append(fetched, Head(cursor))
            /\ calls' = Append(calls, Head(cursor))
            /\ out' = push(out, Decode(Names, Head(cursor)))
            /\ UNCHANGED xpc
    /\ UNCHANGED <<IDEN_NUM, joins, dbs, plan, select, next, names, built,
                   declared, evars, data, wanted, mvars>>

ExecNext ==
    \/ insert_playlist
    \/ insert_playlist_track
    \/ list_all
    \/ playlist_track_count
    \/ into_vec
    \/ create_inner_rows
    \/ rows_next

\* the building and the execution of one query
ExecSpec == QueryInit /\ [][ExecNext]_vars

\* ------------------------------------------------------------- the claims
\* some row of st holds a foreign key that finds no parent row
HasDangling(st) ==
    \E n \in DOMAIN st.tabs :
        \E c \in st.tabs[n].columns :
            /\ c.fk # NoFk
            /\ \E r \in st.tabs[n].rows :
                  ~ /\ c.fk[1] \in DOMAIN st.tabs
                    /\ \E p \in st.tabs[c.fk[1]].rows : p[c.fk[2]] = r[c.name]

\* a step taken by create_db_empty or create_db_sql
OpenStep == pc = "prepare" /\ pc' # "idle"

\* C1: a migrate called while the stamped version differs from S::VERSION
\* leaves the store as it is: the closure is not called, nothing is created,
\* filled, dropped, renamed or stamped, and a Migrator<N> is returned.
C1_SkippedMigrateIsNoOp ==
    [][(pc = "migrator" /\ pc' \in {"migrator", "tables"}
        /\ user_version(txn) # mS)
       => /\ pc' = "migrator"
          /\ mS' \in NextVersions(mS)
          /\ txn' = txn
          /\ disk' = disk
          /\ txOpen'
          /\ builder' = builder
          /\ trace' = trace
          /\ stamped' = stamped]_vars

C1_Witness ==
    pc = "migrator" /\ stuff # {} /\ stamped = {} /\ mS > 0 /\ txn = snap

\* C2: the persisted store changes only in a finish that returns a Database;
\* when Open returns None, a step panics or finish returns None, the
\* persisted store is what it was before Open.
C2_NoPartialMigration ==
    [][/\ disk' # disk
          => /\ pc = "migrator"
             /\ pc' = "db"
             /\ user_version(txn) = mS
             /\ disk' = txn
       /\ pc' \in {"none", "panicked", "finish_none"} => disk' = snap']_vars

C2_Witness ==
    pc = "panicked" /\ txOpen /\ txn # disk /\ disk = snap

\* C3: in a migrate step that takes effect the statements run in the order
\* create and fill, drop, rename, integrity check, schema check, stamp: the
\* version is stamped last, on a store without dangling foreign keys whose
\* live schema is the declared schema of N.
C3_Rank(e) ==
    CASE e \in {"create", "create_empty", "queue_drop"} -> 1
      [] e = "drop"                     -> 2
      [] e = "rename"                   -> 3
      [] e = "fk_check"                 -> 4
      [] e = "schema_check"             -> 5
      [] OTHER                          -> 6

C3_StampLast ==
    /\ \A i, j \in 1 .. Len(trace) :
          i < j => C3_Rank(trace[i]) <= C3_Rank(trace[j])
    /\ \A j \in 1 .. Len(trace) :
          trace[j] = "stamp"
             => /\ j = Len(trace)
                /\ j > 2
                /\ trace[j - 1] = "schema_check"
                /\ trace[j - 2] = "fk_check"
    /\ pc \in {"tables", "drops", "renames", "verify", "stamp"}
          => /\ user_version(txn) = mS
             /\ target \notin stamped
    /\ (Len(trace) > 0 /\ trace[Len(trace)] = "stamp")
          => /\ ~HasDangling(txn)
             /\ read_schema(txn) = Typs(user_version(txn))

C3_Witness ==
    /\ pc = "migrator"
    /\ Len(trace) > 4
    /\ trace[Len(trace)] = "stamp"
    /\ \E i \in 1 .. Len(trace) : trace[i] = "drop"
    /\ \E i \in 1 .. Len(trace) : trace[i] = "rename"

\* C4: a migrate step whose result holds a dangling foreign key panics in
\* the integrity check, and the stamped version stays what it was.
C4_DanglingAborts ==
    [][/\ (pc = "verify" /\ HasDangling(txn))
          => /\ pc' = "panicked"
             /\ why' = "fk"
             /\ user_version(txn') = user_version(txn)
             /\ disk' = disk
       /\ why' = "fk" => user_version(disk') = user_version(snap')]_vars

C4_Witness ==
    pc = "panicked" /\ why = "fk" /\ stuff # {} /\ trace # <<>>

\* C5: after a migrate step that took effect and after the initialization
\* of a new store, the declared schema of the stamped version is compared
\* with the live one: a difference panics, and a Migrator of a version
\* stamped in this session exists only over a store whose live schema was
\* found equal to the declared one.
C5_SchemaCompared ==
    [][/\ (pc = "verify" /\ read_schema(txn) # Typs(target))
          => pc' = "panicked"
       /\ (OpenStep /\ initRan' /\ pc' # "panicked")
          => /\ pc' = "migrator"
             /\ read_schema(txn') = Typs(mS')
       /\ (pc' = "migrator" /\ stamped' # {})
          => /\ mS' \in stamped'
             /\ mS' \in verified'
             /\ read_schema(txn') = Typs(mS')]_vars

C5_Witness ==
    pc = "panicked" /\ why = "schema" /\ stuff # {} /\ trace # <<>>

\* C6: whenever finish returns a Database of version V, the live schema was
\* compared with the declared schema of V between Open and finish.
C6_FinishVerified ==
    pc = "db" => dbh.version \in verified

\* C7: finish returns a Database exactly when the stamped version equals
\* S::VERSION, and then the transaction is committed; otherwise it returns
\* None and nothing is committed.
C7_FinishIffVersion ==
    [][(pc = "migrator" /\ pc' \in {"db", "finish_none"})
       => /\ ~txOpen'
          /\ IF user_version(txn) = mS
             THEN /\ pc' = "db"
                  /\ disk' = txn
                  /\ dbh' = [version |-> mS,
                             schema_version |-> schema_version(txn)]
             ELSE /\ pc' = "finish_none"
                  /\ disk' = disk
                  /\ dbh' = NoDb]_vars

C7_Witness ==
    pc = "db" /\ disk # snap /\ dbh.version = user_version(disk)

\* C8: Open runs the initialization and stamps S::VERSION exactly when the
\* store is newly created (schema_version = 0); on any other store the
\* initialization is not run and Open writes nothing.
C8_InitIffFresh ==
    [][OpenStep
       => /\ initRan' <=> (schema_version(disk) = 0)
          /\ (schema_version(disk) = 0 /\ pc' = "migrator")
             => /\ user_version(txn') = mS'
                /\ stamped' = {mS'}
          /\ schema_version(disk) # 0
             => /\ stamped' = {}
                /\ disk' = disk
                /\ txn' = disk]_vars

C8_Witness ==
    pc = "migrator" /\ initRan /\ stamped = {mS} /\ stuff = {} /\ disk = FreshStore

C10_SameVersionVerified ==
    [][(OpenStep /\ schema_version(disk) # 0 /\ user_version(disk) = mS')
       => IF ~HasDangling(disk) /\ read_schema(disk) = Typs(mS')
          THEN /\ pc' = "migrator"
               /\ verified' = {mS'}
               /\ txn' = disk
          ELSE /\ pc' = "panicked"
               /\ why' \in {"fk", "schema"}
               /\ disk' = disk]_vars

C10_Witness ==
    pc = "panicked" /\ why = "schema" /\ ~initRan /\ stuff = {}

C12_VersionMonotone ==
    [][/\ user_version(disk') >= user_version(disk)
       /\ txOpen' => user_version(txn') >= user_version(txn)
       /\ (pc = "stamp" /\ pc' # "idle")
          => /\ user_version(txn) = mS
             /\ user_version(txn') = target
             /\ target > mS]_vars

\* C13: a migrate_table writes, for every row of the old table, at most one
\* row of the new table, under the id of the old row it was made from: the
\* ids of the new table are ids of the old table and no id is used twice.
C13_IdsKept ==
    [][(/\ pc = "tables" /\ pc' = "tables"
        /\ Len(builder'.drop) = Len(builder.drop) + 1
        /\ Len(builder'.rename) = Len(builder.rename) + 1)
       => LET old == txn.tabs[builder'.drop[Len(builder'.drop)]].rows
              new == txn'.tabs[builder'.rename[Len(builder'.rename)][1]].rows
          IN  /\ {r["id"] : r \in new} \subseteq {r["id"] : r \in old}
              /\ Cardinality(new) <= Cardinality(old)
              /\ \A r1 \in new, r2 \in new : r1["id"] = r2["id"] => r1 = r2
              /\ \A r \in new :
                    \E o \in old :
                       /\ o["id"] = r["id"]
                       /\ \A c \in DOMAIN r \cap DOMAIN o : r[c] = o[c]]_vars

C13_Witness ==
    /\ pc = "tables"
    /\ builder.calls = 1
    /\ Len(builder.drop) = 1
    /\ Len(builder.rename) = 1
    /\ Cardinality(txn.tabs[builder.rename[1][1]].rows) = MaxRows

C20_OneExclusiveTransaction ==
    [][/\ pc \in {"migrator", "tables", "drops", "renames", "verify", "stamp"}
          => txOpen /\ Locked
       /\ (txOpen /\ txOpen') => disk' = disk
       /\ (txOpen /\ ~txOpen') => pc' \in {"db", "finish_none", "idle"}]_vars

C20_Witness ==
    /\ pc = "migrator"
    /\ stuff # {}
    /\ txOpen
    /\ "other" \in DOMAIN disk.tabs
    /\ txn = disk

\* the dereferences made so far of the foreign key column col of table a
RECURSIVE Derefs(_, _, _)
Derefs(a, col, h) ==
    IF h = 0 THEN 0
    ELSE Derefs(a, col, h - 1)
         + (IF dbs[h].table = a /\ dbs[h].col = col THEN dbs[h].derefs ELSE 0)

\* the entries the list of table a holds for the column col
Entries(a, col) ==
    { i \in 1 .. Len(joins[JoinsAt(a)].joined) :
         joins[JoinsAt(a)].joined[i].field = col }

\* C14: however many times (N >= 1) a foreign key column of a table is
\* dereferenced within one query, through one Db value or several, the list
\* of joins of that table holds exactly one entry for it.
C14_OneJoinPerField ==
    \A j \in 1 .. Len(joins), col \in FkFields :
        LET a == joins[j].table
        IN  /\ Derefs(a, col, Len(dbs)) >= 1 => Cardinality(Entries(a, col)) = 1
            /\ Derefs(a, col, Len(dbs)) = 0 => Cardinality(Entries(a, col)) = 0

C14_Witness ==
    \E h1, h2 \in 1 .. Len(dbs) :
        /\ h1 # h2
        /\ dbs[h1].table = dbs[h2].table
        /\ dbs[h1].col = dbs[h2].col
        /\ dbs[h1].derefs = MaxDeref
        /\ dbs[h2].derefs >= 1
        /\ dbs[h1].inner = dbs[h2].inner
        /\ Cardinality(Entries(dbs[h1].table, dbs[h1].col)) = 1

\* C15: the lists of joins only grow at the end: an entry, once made,
\* stays at its position with the column and the alias it was made with,
\* and no Joins is taken away.
C15_JoinsAppendOnly ==
    [][/\ Len(joins') >= Len(joins)
       /\ \A j \in 1 .. Len(joins) :
             /\ joins'[j].table = joins[j].table
             /\ Len(joins'[j].joined) >= Len(joins[j].joined)
             /\ \A i \in 1 .. Len(joins[j].joined) :
                   joins'[j].joined[i] = joins[j].joined[i]]_vars

C15_Witness ==
    \E j \in 1 .. Len(joins) :
        /\ Len(joins[j].joined) = 2
        /\ joins[j].joined[1].field # joins[j].joined[2].field
        /\ joins[j].joined[1].table < joins[j].joined[2].table

\* the aliases a statement defines: those of its joined tables, of its
\* lateral sub-statements and all they define, and the names of its columns
RECURSIVE Defined(_)
RECURSIVE DefinedFrom(_, _)
DefinedFrom(from, i) ==
    IF i > Len(from) THEN <<>>
    ELSE <<from[i].alias>>
         \o (IF from[i].lateral = <<>> THEN <<>>
              ELSE Defined(from[i].lateral[1]))
         \o DefinedFrom(from, i + 1)

Defined(sel) ==
    DefinedFrom(sel.from, 1) \o [k \in 1 .. Len(sel.exprs) |-> sel.exprs[k].alias]

\* C16: in a compiled statement the generated aliases (of the tables, of the
\* lateral sub-statements, of the projected columns and expressions, those of
\* the sub-statements included) are pairwise distinct.
C16_AliasesDistinct ==
    LET d == Defined(select)
    IN  \A i, j \in 1 .. Len(d) : i # j => d[i] # d[j]

C16_Witness ==
    /\ Len(select.from) = 2
    /\ \E i \in 1 .. 2 : select.from[i].lateral # <<>>
    /\ \E i \in 1 .. 2 : select.from[i].lateral = <<>>
    /\ Len(Defined(select)) > MaxAlias

\* the calls of MyAlias::new made so far, <<thread, number>>, number 0 being
\* the call a thread is inside of, and the value each one got
Calls ==
    UNION { { <<t, k>> : k \in 1 .. Len(names[t]) } : t \in Threads }
    \cup { <<t, 0>> : t \in { u \in Threads : next[u] # NoCall } }

ValueOf(c) == IF c[2] = 0 THEN next[c[1]] ELSE names[c[1]][c[2]]

\* C17: calls of MyAlias::new made concurrently by several threads never get
\* the same alias: every call has the value of one increment of the counter
\* and every increment belongs to one call.
C17_ConcurrentAliasesDistinct ==
    /\ \A c1 \in Calls, c2 \in Calls : c1 # c2 => ValueOf(c1) # ValueOf(c2)
    /\ {ValueOf(c) : c \in Calls} = 0 .. IDEN_NUM - 1

C17_Witness ==
    \E t1 \in Threads, t2 \in Threads :
        /\ t1 # t2
        /\ Len(names[t1]) >= 2
        /\ next[t2] # NoCall
        /\ next[t1] # NoCall
        /\ names[t1][1] < next[t2]
        /\ next[t2] < next[t1]

\* what a program declared, whatever the order of its calls
DeclaredBy(p) == [typ |-> declared[p].typ, schema |-> declared[p].schema]

\* C19: two Schema Models are equal exactly when the same tables, columns
\* (name, type, nullable, foreign key) and unique constraints were declared:
\* the order of the declarations and the order of the columns listed in a
\* unique make no difference, any other difference makes them unequal.
C19_SchemaEqualityUnordered ==
    (DeclaredBy(1) = DeclaredBy(2)) <=> (built[1] = built[2])

C19_Witness ==
    /\ declared[1].calls = MaxDecls
    /\ declared[1].schema # {}
    /\ DeclaredBy(1) = DeclaredBy(2)
    /\ built[1] = built[2]
    /\ \E t \in declared[1].schema :
          /\ \E d \in t[2] : d[1] = "col" /\ d[2].name = "b"
          /\ \E d \in t[2] : d[1] = "unique"


\* ---------------------------------------------------------------- C21
\* C21: a Prepare::open made after the process has already opened a Prepare
\* (which it consumed, turned into a Migrator and finished into a Database,
\* or which returned None) succeeds and returns a Prepare.
C21_SecondOpenSucceeds ==
    [][(pc \in {"db", "none", "finish_none"} /\ pc' \notin {pc, "idle"})
          => pc' = "prepare"]_vars

\* ---------------------------------------------------------------- C27
\* C27: within an effective migrate step no DROP and no RENAME is executed
\* while the tables of the step are being created and filled, every DROP is
\* executed before any RENAME, and every call on the SchemaBuilder leaves the
\* tables it found as they were: the transforms read the old tables
\* unmodified.
C27_CreateThenDropThenRename ==
    [][/\ pc' = "tables"
          => \A i \in 1 .. Len(trace') : trace'[i] \notin {"drop", "rename"}
       /\ \A i, j \in 1 .. Len(trace') :
             (trace'[i] = "rename" /\ trace'[j] = "drop") => j < i
       /\ pc = "tables"
          => \A n \in DOMAIN txn.tabs :
                /\ n \in DOMAIN txn'.tabs
                /\ txn'.tabs[n] = txn.tabs[n]]_vars

C27_Witness ==
    /\ pc = "verify"
    /\ Len(builder.drop) > 0
    /\ Len(builder.rename) > 0
    /\ \E i, j \in 1 .. Len(trace) :
          /\ trace[i] = "drop"
          /\ trace[j] = "rename"
          /\ i < j
    /\ \E n \in DOMAIN txn.tabs : txn.tabs[n].rows # {}

\* ---------------------------------------------------------------- C28
\* the names of the temporary tables
TmpTables == {TmpNames[i] : i \in 1 .. Len(TmpNames)}

\* the renames of the step in progress have been executed
Renamed ==
    \/ pc \in {"verify", "stamp"}
    \/ pc = "migrator" /\ trace # <<>> /\ trace[Len(trace)] = "stamp"

\* C28: the temporary names issued within one migrate step are pairwise
\* distinct; once the renames of an effective step are done, every temporary
\* table of the step has been renamed exactly once, to the name of its
\* target table, and no table with a temporary name remains.
C28_TemporariesRenamed ==
    /\ \A i, j \in 1 .. Len(builder.rename) :
          i # j => builder.rename[i][1] # builder.rename[j][1]
    /\ Renamed
          => /\ DOMAIN txn.tabs \cap TmpTables = {}
             /\ Cardinality({i \in 1 .. Len(trace) : trace[i] = "rename"})
                   = Len(builder.rename)
             /\ Cardinality({i \in 1 .. Len(trace) :
                                trace[i] \in {"create", "create_empty"}})
                   = Len(builder.rename)
             /\ \A i \in 1 .. Len(builder.rename) :
                   /\ builder.rename[i][1] \in TmpTables
                   /\ builder.rename[i][2] \in TableNames(target)
                   /\ builder.rename[i][2] \in DOMAIN txn.tabs

C28_Witness ==
    /\ pc = "verify"
    /\ Len(builder.rename) = 2
    /\ \A i \in 1 .. 2 : builder.rename[i][2] \in DOMAIN txn.tabs

\* ---------------------------------------------------------------- C29
\* C29: when Migrator::finish returns None, no migrate step of the session
\* took effect (no statement of a step was executed, no version was stamped,
\* the initialization did not run) and the persisted store, tables and
\* stamped version, is the store that Prepare::open found.
C29_FinishNoneLeavesStore ==
    pc = "finish_none"
       => /\ trace = <<>>
          /\ stamped = {}
          /\ ~initRan
          /\ disk = snap
          /\ ~txOpen

C29_Witness ==
    /\ pc = "finish_none"
    /\ mS > 0
    /\ user_version(disk) > mS
    /\ \E n \in DOMAIN disk.tabs : disk.tabs[n].rows # {}

\* ---------------------------------------------------------------- C30
\* the calls of create_inner of the step in progress, by their number, that
\* were given Create::empty
EmptyCreates ==
    { Cardinality({j \in 1 .. i : trace[j] \in {"create", "create_empty"}}) :
         i \in {i \in 1 .. Len(trace) : trace[i] = "create_empty"} }

\* C30: the row closure of NeverCreate is never invoked, and a table created
\* with Create::empty holds no row, under its temporary name during the step
\* and under its own name once the step has renamed it, whatever rows the
\* tables of the old schema hold.
C30_EmptyStaysEmpty ==
    /\ why # "unreachable"
    /\ pc \in {"tables", "drops", "renames", "verify", "stamp", "migrator"}
          => \A k \in EmptyCreates :
                LET name == IF Renamed THEN builder.rename[k][2]
                            ELSE builder.rename[k][1]
                IN  /\ name \in DOMAIN txn.tabs
                    /\ txn.tabs[name].rows = {}

C30_Witness ==
    /\ pc = "verify"
    /\ EmptyCreates # {}
    /\ \A n \in DOMAIN snap.tabs : snap.tabs[n].rows # {}
    /\ snap.tabs # NoTables

\* ---------------------------------------------------------------- C26
\* C26: in the statement compiled from a plan every grouping key is
\* projected, is a GROUP BY term and an ascending ORDER BY term, every sort
\* key is projected and is an ascending ORDER BY term, and the ORDER BY list
\* is the grouping keys in insertion order followed by the sort keys in
\* insertion order.
C26_GroupAndSortTerms ==
    select # NoSelect
       => LET list == plan.group \o plan.sort
              keys == [k \in 1 .. Len(list) |-> list[k][1]]
          IN  /\ \A k \in 1 .. Len(keys) : keys[k] \in Projected(select)
              /\ select.group_by
                    = [k \in 1 .. Len(plan.group) |-> plan.group[k][1]]
              /\ Len(select.order_by) = Len(keys)
              /\ \A k \in 1 .. Len(keys) :
                    /\ select.order_by[k].col = keys[k]
                    /\ select.order_by[k].order = "Asc"

C26_Witness ==
    /\ select # NoSelect
    /\ Len(plan.group) > 0
    /\ Len(plan.sort) > 0
    /\ Len(plan.aggr) > 0
    /\ plan.sort[1][1] < plan.group[1][1]

\* ---------------------------------------------------------------- C23
\* C23: the operands of every equality node that was built have the same
\* type tag.
C23_EqOperandsSameTyp ==
    \A n \in nodes : n[1] = "MyEq" => Typ(n[2]) = Typ(n[3])

\* ---------------------------------------------------------------- C24
RECURSIVE Aliases(_)
\* the table aliases that the columns of a node refer to
Aliases(n) ==
    CASE n[1] = "Db"                -> {n[4]}
      [] n[1] = "Const"             -> {}
      [] n[1] \in {"MyNot", "MyLt"} -> Aliases(n[2])
      [] OTHER                      -> Aliases(n[2]) \cup Aliases(n[3])

\* C24: every node a plan took refers only to aliases of tables joined by
\* that plan or by the plan around it.
C24_NodesStayInScope ==
    \A s \in Scopes : \A n \in filters[s] :
        Aliases(n) \subseteq srcs[s] \cup UNION {srcs[o] : o \in Outer(s)}

C24_Witness ==
    /\ \E n \in filters[3] :
          /\ Aliases(n) \cap srcs[1] # {}
          /\ Aliases(n) \cap srcs[3] # {}
    /\ \E n \in nodes : Aliases(n) \cap srcs[2] # {}

\* ---------------------------------------------------------------- C22
\* C22: into_vec calls the row decoder once per row that the engine returned,
\* in the order of the rows: the vector has one element per returned row,
\* element i being the decoding of the i-th row.
C22_OneDecodePerRow ==
    /\ calls = fetched
    /\ Len(out) = Len(fetched)
    /\ \A i \in 1 .. Len(out) : out[i] = Decode(Names, fetched[i])
    /\ xpc = "done"
          => /\ Len(cursor) = 0
             /\ Len(out) = Len(Eval(select, NoRow, data))

C22_Witness ==
    /\ xpc = "done"
    /\ Len(out) = 2
    /\ out[1] # out[2]
    /\ fetched[1] # fetched[2]

\* ---------------------------------------------------------------- C25
\* the plan has a nested plan among its sources
IsCountQuery ==
    \E i \in 1 .. Len(plan.sources) : plan.sources[i].kind = "Select"

\* the rows of playlist_track that refer to the playlist
TracksOf(p) == {t \in data.playlist_track : t.playlist = p.id}

C32_ForeignKeysOffInTransaction ==
    [][/\ txOpen => fkOn = "OFF"
       /\ txOpen' => fkOn' = "OFF"
       /\ pc' = "migrator" => txOpen' /\ fkOn' = "OFF"
       /\ pc' = "db" => ~txOpen' /\ fkOn' = "ON"
       /\ fkOn = "OFF" /\ fkOn' = "ON"
            => /\ pc = "migrator" /\ pc' = "db"
               /\ txOpen /\ ~txOpen'
               /\ disk' = txn]_vars

\* a migration that changed the store was committed by finish, and
\* enforcement is ON again
C32_Witness ==
    pc = "db" /\ fkOn = "ON" /\ ~txOpen /\ stamped # {} /\ disk # snap


\* C33: when finish unwraps the transaction the Migrator holds the only
\* reference to it: Rc::into_inner never fails, whatever the number of
\* migrate calls before; while a Migrator is held the count is 1, or 2 when
\* the LocalClient holds the clone a migrate call left, and once finish has
\* returned no LocalClient holds a clone any more.
C33_OnlyReferenceAtFinish ==
    /\ why # "into_inner"
    /\ pc = "migrator" => strong_count(stuff) \in {1, 2}
    /\ pc \in {"db", "finish_none"} => stuff = {}

\* finish returned the Database after two migrate calls took effect
C33_Witness ==
    pc = "db" /\ stuff = {} /\ Cardinality(stamped) >= 2 /\ ~initRan


\* what the row decoder reads: the names that prepare registered for it
DecoderReads == {plan.select[k][2] : k \in 1 .. Len(plan.select)}

\* C31: in into_vec and in create_inner the row decoder is prepared before
\* the plan is compiled: once the statement runs, prepare has registered one
\* column per value the decoder reads, the compiled statement projects every
\* one of them, and every row the statement returns carries them all.
C31_DecoderColumnsProjected ==
    xpc \in {"rows", "insert_rows", "done"} =>
        /\ Len(plan.select) = Len(wanted)
        /\ DecoderReads \subseteq Projected(select)
        /\ \A i \in 1 .. Len(cursor) : DecoderReads \subseteq DOMAIN cursor[i]
        /\ \A i \in 1 .. Len(fetched) : DecoderReads \subseteq DOMAIN fetched[i]

\* create_inner read two rows through a decoder that reads two columns
C31_Witness ==
    /\ xpc = "insert_rows"
    /\ Cardinality(DecoderReads) = 2
    /\ Len(fetched) >= 2
    /\ Len(out) = Len(fetched)

====
